---- MODULE Spec2Model ----
(***************************************************************************)
(* Model of src/vivekkhedkar/scraper.py: the __main__ workflow that reads  *)
(* the scroll count, constructs a GoogleScraper, runs scrape() and then    *)
(* save_to_csv().  The browser driver, the page and the file system are    *)
(* the environment: every driver call may succeed or raise, find_elements  *)
(* returns any number of element handles, each handle shows its content    *)
(* when the loop reads it, and the CSV write may fail.                     *)
(***************************************************************************)
EXTENDS Integers, Sequences, FiniteSets, TLC

(* ------------------------------ bounds --------------------------------- *)
MaxTextLen == 2        \* longest text typed at the scroll-count prompt
MaxContainers == 2     \* most div.g containers find_elements returns

(* --------------------------- value domains ----------------------------- *)
Alphabet == {"1", "-", "x", " "}   \* characters typed at the prompt
Digits == {"1"}                    \* the decimal digits of Alphabet

NoElem == "<NoSuchElement>"   \* find_element raises NoSuchElementException
NoAttr == "<None>"            \* get_attribute("href") returns None

TitleVals == {NoElem, "", "T"}        \* h3 of a container: absent, empty text, text
HrefVals  == {NoElem, NoAttr, "U"}    \* a of a container: absent, no href, href
DescVals  == {NoElem, "", "D"}        \* div.VwiC3b: absent, empty text, text

Containers == [h3 : TitleVals, a : HrefVals, desc : DescVals]

Texts == UNION {[1..n -> Alphabet] : n \in 0..MaxTextLen}
\* the lists of element handles find_elements can return
Handles == {[i \in 1..n |-> i] : n \in 0..MaxContainers}

NoFile == <<>>                \* the file was not written: no lines
Header == <<"Title", "URL", "Description">>
Consumed == <<"<eof>">>

VARIABLES
    pc,             \* position of the script
    stdin,          \* the text waiting at the scroll-count prompt
    num_scrolls,    \* self.num_scrolls
    driver,         \* self.driver: "none", "open" or "quit"
    scrolled,       \* iterations of the scroll loop completed
    search_results, \* the list of element handles find_elements returned
    page,           \* the content of each handle the loop has read so far
    idx,            \* position of the container loop (next container)
    results,        \* self.results
    origin,         \* for each entry of results, the index of its container
    stdout,         \* the lines printed, as tags
    calls,          \* the external calls made, with their outcome
    file            \* the CSV file: NoFile or its rows

vars == <<pc, stdin, num_scrolls, driver, scrolled, search_results, page,
          idx, results, origin, stdout, calls, file>>

(* ------------------------- pure helpers -------------------------------- *)
Range(s) == {s[i] : i \in 1..Len(s)}

Call(op, out) == [op |-> op, out |-> out]

RECURSIVE LStrip(_)
LStrip(s) == IF s # <<>> /\ s[1] = " " THEN LStrip(Tail(s)) ELSE s

RECURSIVE RStrip(_)
RStrip(s) ==
    IF s # <<>> /\ s[Len(s)] = " " THEN RStrip(SubSeq(s, 1, Len(s) - 1)) ELSE s

\* str.strip(): leading and trailing blanks removed
Strip(s) == RStrip(LStrip(s))

DigitVal(c) == IF c = "1" THEN 1 ELSE 0

RECURSIVE DigitsValue(_)
DigitsValue(s) ==
    IF s = <<>> THEN 0
    ELSE 10 * DigitsValue(SubSeq(s, 1, Len(s) - 1)) + DigitVal(s[Len(s)])

\* int(str) accepts an optional sign followed by at least one digit
IntAccepts(s) ==
    /\ s # <<>>
    /\ LET body == IF s[1] = "-" THEN Tail(s) ELSE s
       IN  body # <<>> /\ \A i \in 1..Len(body) : body[i] \in Digits

IntValue(s) == IF s[1] = "-" THEN 0 - DigitsValue(Tail(s)) ELSE DigitsValue(s)

\* Python truthiness of a str-or-None value
Truthy(v) == v # "" /\ v # NoAttr

\* one of the three find_element calls of the loop body raises
MissingElement(c) == c.h3 = NoElem \/ c.a = NoElem \/ c.desc = NoElem

Record(c) == [Title |-> c.h3, URL |-> c.a, Description |-> c.desc]

Row(r) == <<r.Title, r.URL, r.Description>>

\* to_csv(header=False)
CsvRowsNoHeader(rs) == [i \in 1..Len(rs) |-> Row(rs[i])]

\* DataFrame(results).to_csv(index=False): header line, then one line per record
CsvRows(rs) == <<Header>> \o [i \in 1..Len(rs) |-> Row(rs[i])]

(* ------------------------------ Init ----------------------------------- *)
Init ==
    /\ pc = "input"
    /\ stdin \in Texts
    /\ num_scrolls = 0
    /\ driver = "none"
    /\ scrolled = 0
    /\ search_results = <<>>
    /\ page = <<>>
    /\ idx = 1
    /\ results = <<>>
    /\ origin = <<>>
    /\ stdout = <<>>
    /\ calls = <<>>
    /\ file = NoFile


(* ------------------- __main__: the scroll-count prompt ------------------ *)
\* no handler for ValueError: the exception leaves the script
OnValueErrorUncaught ==
    /\ num_scrolls' = num_scrolls
    /\ stdout' = stdout
    /\ pc' = "crashed"

\* except ValueError: print the warning, num_scrolls = 2
OnValueError ==
    /\ num_scrolls' = 2
    /\ stdout' = Append(stdout, "WARNING: invalid scrolls")
    /\ pc' = "construct"

\* num_scrolls = int(input(...).strip() or 2) inside try/except ValueError
ReadScrolls ==
    /\ pc = "input"
    /\ stdin' = Consumed
    /\ LET s == Strip(stdin)
       IN  IF s = <<>>
           THEN num_scrolls' = 2 /\ stdout' = stdout /\ pc' = "construct"
           ELSE IF IntAccepts(s)
           THEN num_scrolls' = IntValue(s) /\ stdout' = stdout /\ pc' = "construct"
           ELSE OnValueError
    /\ UNCHANGED <<driver, scrolled, search_results, page, idx, results, origin,
                   calls, file>>

(* ------------------ GoogleScraper.__init__ / _init_driver --------------- *)
InitDriverOk ==
    /\ pc = "construct"
    /\ driver' = "open"
    /\ calls' = Append(calls, Call("Chrome", "ok"))
    /\ pc' = "get"
    /\ UNCHANGED <<stdin, num_scrolls, scrolled, search_results, page, idx, results,
                   origin, stdout, file>>

\* except WebDriverException: print, then raise; nothing above catches it
InitDriverFails ==
    /\ pc = "construct"
    /\ calls' = Append(calls, Call("Chrome", "raise"))
    /\ stdout' = Append(stdout, "ERROR: init")
    /\ pc' = "crashed"
    /\ UNCHANGED <<stdin, num_scrolls, driver, scrolled, search_results, page, idx,
                   results, origin, file>>

(* --------------------------- GoogleScraper.scrape ----------------------- *)
\* except Exception as e: print the error; control then enters finally
OnScrapeError(out) ==
    /\ stdout' = out \o <<"ERROR: scraping">>
    /\ pc' = "finally"

GetOk ==
    /\ pc = "get"
    /\ stdout' = Append(stdout, "INFO: starting")
    /\ calls' = Append(calls, Call("get", "ok"))
    /\ pc' = "scroll"
    /\ UNCHANGED <<stdin, num_scrolls, driver, scrolled, search_results, page, idx,
                   results, origin, file>>

GetFails ==
    /\ pc = "get"
    /\ calls' = Append(calls, Call("get", "raise"))
    /\ OnScrapeError(Append(stdout, "INFO: starting"))
    /\ UNCHANGED <<stdin, num_scrolls, driver, scrolled, search_results, page, idx,
                   results, origin, file>>

\* range(self.num_scrolls + 1)
MoreScrollsOffByOne == scrolled <= num_scrolls

\* for _ in range(self.num_scrolls): another iteration remains
MoreScrolls == scrolled < num_scrolls

ScrollOk ==
    /\ pc = "scroll"
    /\ MoreScrolls
    /\ calls' = Append(calls, Call("send_keys", "ok"))
    /\ scrolled' = scrolled + 1
    /\ UNCHANGED <<pc, stdin, num_scrolls, driver, search_results, page, idx,
                   results, origin, stdout, file>>

ScrollFails ==
    /\ pc = "scroll"
    /\ MoreScrolls
    /\ calls' = Append(calls, Call("send_keys", "raise"))
    /\ OnScrapeError(stdout)
    /\ UNCHANGED <<stdin, num_scrolls, driver, scrolled, search_results, page, idx,
                   results, origin, file>>

QueryOk ==
    /\ pc = "scroll"
    /\ ~MoreScrolls
    /\ search_results' \in Handles
    /\ calls' = Append(calls, Call("find_elements", "ok"))
    /\ stdout' = Append(stdout, "INFO: found")
    /\ idx' = 1
    /\ pc' = "scan"
    /\ UNCHANGED <<stdin, num_scrolls, driver, scrolled, page, results, origin,
                   file>>

QueryFails ==
    /\ pc = "scroll"
    /\ ~MoreScrolls
    /\ calls' = Append(calls, Call("find_elements", "raise"))
    /\ OnScrapeError(stdout)
    /\ UNCHANGED <<stdin, num_scrolls, driver, scrolled, search_results, page, idx,
                   results, origin, file>>

\* if title
QualifiesTitleOnly(title, url) == Truthy(title)

\* if title and url
Qualifies(title, url) == Truthy(title) /\ Truthy(url)

\* list.insert(0, e)
PrependTo(s, e) == <<e>> \o s

\* list.append
AppendTo(s, e) == Append(s, e)

\* a try around the whole loop: the first missing element ends the loop
OnMissingElementBreaks ==
    /\ stdout' = Append(stdout, "WARNING: missing element")
    /\ idx' = idx
    /\ pc' = "finally"

\* except NoSuchElementException: print the warning, go on with the loop
OnMissingElement ==
    /\ stdout' = Append(stdout, "WARNING: missing element")
    /\ idx' = idx + 1
    /\ pc' = "scan"

\* one iteration of "for result in search_results" that raises nothing
\* but, possibly, NoSuchElementException
Extract ==
    /\ pc = "scan"
    /\ idx <= Len(search_results)
    /\ \E c \in Containers :
        /\ page' = Append(page, c)
        /\ IF MissingElement(c)
           THEN /\ calls' = Append(calls, Call("extract", "missing"))
                /\ OnMissingElement
                /\ UNCHANGED <<results, origin>>
           ELSE /\ calls' = Append(calls, Call("extract", "ok"))
                /\ IF Qualifies(c.h3, c.a)
                   THEN /\ results' = AppendTo(results, Record(c))
                        /\ origin' = AppendTo(origin, idx)
                   ELSE UNCHANGED <<results, origin>>
                /\ idx' = idx + 1
                /\ UNCHANGED <<pc, stdout>>
    /\ UNCHANGED <<stdin, num_scrolls, driver, scrolled, search_results, file>>

\* the general handler inside the loop: the error is printed and the loop
\* goes on with the next container
ExtractFailsContinues ==
    /\ pc = "scan"
    /\ idx <= Len(search_results)
    /\ calls' = Append(calls, Call("extract", "raise"))
    /\ stdout' = Append(stdout, "ERROR: scraping")
    /\ idx' = idx + 1
    /\ UNCHANGED <<pc, stdin, num_scrolls, driver, scrolled, search_results,
                   page, results, origin, file>>

\* an iteration that raises another exception (stale element, lost session):
\* the outer handler ends the loop
ExtractFails ==
    /\ pc = "scan"
    /\ idx <= Len(search_results)
    /\ calls' = Append(calls, Call("extract", "raise"))
    /\ OnScrapeError(stdout)
    /\ UNCHANGED <<stdin, num_scrolls, driver, scrolled, search_results, page, idx,
                   results, origin, file>>

\* control is at the finally clause: after the handler, or after the loop
AtFinally ==
    \/ pc = "finally"
    \/ pc = "scan" /\ idx > Len(search_results)

\* quit() left out of the cleanup
QuitLeavesOpen(d) == d

\* self.driver after self.driver.quit() was called
Quit(d) == "quit"

QuitOk ==
    /\ AtFinally
    /\ driver' = Quit(driver)
    /\ calls' = Append(calls, Call("quit", "ok"))
    /\ stdout' = Append(stdout, "INFO: completed")
    /\ pc' = "save"
    /\ UNCHANGED <<stdin, num_scrolls, scrolled, search_results, page, idx, results,
                   origin, file>>

\* quit() itself raises inside finally: the exception leaves scrape()
QuitFails ==
    /\ AtFinally
    /\ driver' = Quit(driver)
    /\ calls' = Append(calls, Call("quit", "raise"))
    /\ pc' = "crashed"
    /\ UNCHANGED <<stdin, num_scrolls, scrolled, search_results, page, idx, results,
                   origin, stdout, file>>

(* ------------------------ GoogleScraper.save_to_csv --------------------- *)
\* the emptiness test left out
NothingToSaveNever(rs) == FALSE

\* if not self.results
NothingToSave(rs) == rs = <<>>

SaveSkip ==
    /\ pc = "save"
    /\ NothingToSave(results)
    /\ stdout' = Append(stdout, "WARNING: no results")
    /\ pc' = "done"
    /\ UNCHANGED <<stdin, num_scrolls, driver, scrolled, search_results, page, idx,
                   results, origin, calls, file>>

SaveOk ==
    /\ pc = "save"
    /\ ~NothingToSave(results)
    /\ calls' = Append(calls, Call("to_csv", "ok"))
    /\ file' = CsvRows(results)
    /\ stdout' = Append(stdout, "INFO: saved")
    /\ pc' = "done"
    /\ UNCHANGED <<stdin, num_scrolls, driver, scrolled, search_results, page, idx,
                   results, origin>>

\* no handler around the write: the exception leaves the script
OnSaveErrorUncaught ==
    /\ stdout' = stdout
    /\ pc' = "crashed"

\* except Exception as e: print the error; return normally
OnSaveError ==
    /\ stdout' = Append(stdout, "ERROR: save")
    /\ pc' = "done"

\* the write raises: the file is untouched, or is cut short of its last line
SaveFails ==
    /\ pc = "save"
    /\ ~NothingToSave(results)
    /\ calls' = Append(calls, Call("to_csv", "raise"))
    /\ file' \in {NoFile, SubSeq(CsvRows(results), 1, Len(results))}
    /\ OnSaveError
    /\ UNCHANGED <<stdin, num_scrolls, driver, scrolled, search_results, page, idx,
                   results, origin>>

(* ---------------------------- specification ----------------------------- *)
Next ==
    \/ ReadScrolls
    \/ InitDriverOk
    \/ InitDriverFails
    \/ GetOk
    \/ GetFails
    \/ ScrollOk
    \/ ScrollFails
    \/ QueryOk
    \/ QueryFails
    \/ Extract
    \/ ExtractFails
    \/ QuitOk
    \/ QuitFails
    \/ SaveSkip
    \/ SaveOk
    \/ SaveFails

Spec == Init /\ [][Next]_vars

\* the script is sequential and every call returns or raises
FairSpec == Spec /\ WF_vars(Next)

TypeOK ==
    /\ pc \in {"input", "construct", "get", "scroll", "scan", "finally",
               "save", "done", "crashed"}
    /\ num_scrolls \in Int
    /\ driver \in {"none", "open", "quit"}
    /\ scrolled \in Nat
    /\ search_results \in Handles
    /\ page \in Seq(Containers)
    /\ Len(page) = idx - 1
    /\ idx \in 1..(MaxContainers + 1)
    /\ Len(origin) = Len(results)


(* ------------------------- vocabulary of the claims --------------------- *)
\* a field that was found and holds non-empty text
HasText(v) == v \notin {NoElem, NoAttr, ""}

\* a record made from container i is in self.results
Included(i) == i \in Range(origin)

\* the container loop went past container i
Reached(i) == i < idx

Raised(op) == Call(op, "raise") \in Range(calls)

NoRaise == \A k \in 1..Len(calls) : calls[k].out # "raise"

PageError == Raised("get") \/ Raised("send_keys") \/ Raised("find_elements")
                 \/ Raised("extract")

LastCall(c) == calls # <<>> /\ calls[Len(calls)] = c

Written == LastCall(Call("to_csv", "ok"))

Count(s, e) == Cardinality({k \in 1..Len(s) : s[k] = e})

\* the records a flawless pass over the containers cs retains, in order
RECURSIVE Kept(_)
Kept(cs) ==
    IF cs = <<>> THEN <<>>
    ELSE LET front == Kept(SubSeq(cs, 1, Len(cs) - 1))
             c == cs[Len(cs)]
         IN  IF c.h3 = "T" /\ c.a = "U" /\ c.desc # NoElem
             THEN Append(front, Record(c))
             ELSE front

\* the text at the prompt, blanks around it aside, is a decimal integer
ValidScrollCount(t) ==
    LET s == Strip(t)
        n == Len(s)
    IN  \E k \in {0, 1} :
            /\ n > k
            /\ k = 1 => s[1] = "-"
            /\ \A i \in (k + 1)..n : s[i] \in Digits

(* -------------------------------- C1 ------------------------------------ *)
\* C1 as stated: once scrape() has returned without any call raising, a
\* container has a record in self.results if and only if its title and its
\* URL are both non-empty.
C1_Original ==
    (pc \in {"save", "done"} /\ NoRaise) =>
        \A i \in 1..Len(search_results) :
            Included(i) <=> (HasText(page[i].h3)
                               /\ HasText(page[i].a))

\* C1 amended: a container has a record in self.results if and only if the
\* loop went past it, all three of its sub-elements were found, and its title
\* and URL are non-empty; the record carries the container's three fields, an
\* empty description text included.
C1_Inclusion ==
    /\ \A i \in 1..Len(search_results) :
           Included(i) <=> /\ Reached(i)
                           /\ ~MissingElement(page[i])
                           /\ HasText(page[i].h3)
                           /\ HasText(page[i].a)
    /\ \A k \in 1..Len(results) :
           /\ origin[k] \in 1..Len(search_results)
           /\ results[k] = Record(page[origin[k]])

C1_Witness ==
    /\ pc = "done"
    /\ NoRaise
    /\ page = <<[h3 |-> "T", a |-> "U", desc |-> NoElem],
                [h3 |-> "T", a |-> "U", desc |-> ""]>>
    /\ origin = <<2>>

(* -------------------------------- C2 ------------------------------------ *)
\* C2: when save_to_csv() has written the file, the file holds the header
\* Title,URL,Description followed by exactly one row per record of
\* self.results, and there is at least one record.
C2_RowCount ==
    Written =>
        /\ results # <<>>
        /\ Len(file) = Len(results) + 1
        /\ file[1] = <<"Title", "URL", "Description">>
        /\ \A k \in 1..Len(results) :
               file[k + 1] = <<results[k].Title, results[k].URL,
                               results[k].Description>>

C2_Witness == pc = "done" /\ Written /\ Len(results) = 2 /\ Len(file) = 3

(* -------------------------------- C3 ------------------------------------ *)
\* C3: when self.results is empty at save_to_csv(), no write is attempted:
\* to_csv is never called and the file stays absent.
C3_NoWriteWhenEmpty ==
    (pc \in {"save", "done"} /\ results = <<>>) =>
        /\ file = NoFile
        /\ \A k \in 1..Len(calls) : calls[k].op # "to_csv"

C3_Witness ==
    /\ pc = "done"
    /\ results = <<>>
    /\ search_results # <<>>
    /\ stdout[Len(stdout)] = "WARNING: no results"

(* -------------------------------- C4 ------------------------------------ *)
\* C4: every text at the scroll-count prompt that is not a valid scroll
\* count, the empty text included, sets num_scrolls to 2 and the script goes
\* on to construct the scraper.
C4_InvalidDefaultsTo2 ==
    [][(pc = "input" /\ ~ValidScrollCount(stdin)) =>
           (num_scrolls' = 2 /\ pc' = "construct")]_vars

C4_Witness ==
    /\ pc = "get"
    /\ driver = "open"
    /\ num_scrolls = 2
    /\ stdout = <<"WARNING: invalid scrolls">>

(* -------------------------------- C5 ------------------------------------ *)
\* C5: in every execution in which a browser session was acquired,
\* driver.quit() is eventually called, whatever scrape() goes through.
C5_SessionQuit == (driver = "open") ~> (driver = "quit")

C5_Witness ==
    /\ driver = "quit"
    /\ Raised("extract")
    /\ Count(stdout, "WARNING: missing element") > 0
    /\ Call("quit", "ok") \in Range(calls)

(* -------------------------------- C6 ------------------------------------ *)
\* C6 as stated: after a failure of any of the four kinds the script has not
\* been left by an exception.
C6_Original ==
    (\E k \in 1..Len(calls) :
        /\ calls[k].out \in {"raise", "missing"}
        /\ calls[k].op \in {"Chrome", "get", "send_keys", "find_elements",
                            "extract", "to_csv"})
    => pc # "crashed"

\* C6 amended: a page error in scrape(), a missing element and a write
\* failure are each logged and caught, and the script goes on (to the
\* cleanup, to the next container, to the end); a driver initialisation
\* failure is logged and re-raised, so the script ends there with no session
\* and no further step; the only other exception that leaves the script is
\* one raised by driver.quit() in the cleanup.
C6_Failures ==
    /\ Raised("Chrome") =>
           /\ pc = "crashed"
           /\ driver = "none"
           /\ calls = <<Call("Chrome", "raise")>>
           /\ stdout[Len(stdout)] = "ERROR: init"
    /\ PageError =>
           /\ Count(stdout, "ERROR: scraping") = 1
           /\ pc \in {"finally", "save", "done"}
                 \/ (pc = "crashed" /\ LastCall(Call("quit", "raise")))
    /\ Count(calls, Call("extract", "missing"))
           = Count(stdout, "WARNING: missing element")
    /\ Raised("to_csv") =>
           /\ pc = "done"
           /\ stdout[Len(stdout)] = "ERROR: save"
    /\ pc = "crashed" => Raised("Chrome") \/ Raised("quit")
    /\ pc \notin {"done", "crashed"} => ENABLED Next

C6_Witness ==
    /\ pc = "done"
    /\ Raised("extract")
    /\ Raised("to_csv")
    /\ Count(stdout, "ERROR: scraping") = 1
    /\ stdout[Len(stdout)] = "ERROR: save"

(* -------------------------------- C7 ------------------------------------ *)
\* C7: the records of self.results, and the rows of the written file, are
\* in the order of their containers in the list find_elements returned, and
\* no container has more than one record.
C7_Order ==
    /\ \A j, k \in 1..Len(origin) : j < k => origin[j] < origin[k]
    /\ Len(origin) = Len(results)
    /\ \A k \in 1..Len(results) :
           /\ results[k].Description = page[origin[k]].desc
           /\ Written => file[k + 1][3] = page[origin[k]].desc

C7_Witness ==
    /\ pc = "done"
    /\ Written
    /\ origin = <<1, 2>>
    /\ results[1].Description = "D"
    /\ results[2].Description = ""

(* -------------------------------- C8 ------------------------------------ *)
\* C8: an iteration that ends in the missing-element handler appends
\* nothing, leaves self.results as it was and moves on to the next
\* container; unless a call raises, every container found is gone through.
C8_SkipOnlyThat ==
    /\ [][calls' = Append(calls, Call("extract", "missing")) =>
             /\ results' = results
             /\ origin' = origin
             /\ pc' = "scan"
             /\ idx' = idx + 1]_vars
    /\ []((NoRaise /\ pc \in {"save", "done"}) =>
             /\ idx = Len(search_results) + 1
             /\ Count(calls, Call("extract", "ok"))
                    + Count(calls, Call("extract", "missing"))
                = Len(search_results))

C8_Witness ==
    /\ pc = "done"
    /\ Len(page) = 2
    /\ MissingElement(page[1])
    /\ origin = <<2>>
    /\ Count(stdout, "WARNING: missing element") = 1

(* -------------------------------- C9 ------------------------------------ *)
Rank(op) ==
    CASE op = "Chrome" -> 1
      [] op = "get" -> 2
      [] op = "send_keys" -> 3
      [] op = "find_elements" -> 4
      [] op = "extract" -> 5
      [] op = "quit" -> 6
      [] op = "to_csv" -> 7

Repeat(op, n) == [i \in 1..n |-> op]

ExpectedOps ==
    <<"Chrome", "get">>
        \o Repeat("send_keys", IF num_scrolls > 0 THEN num_scrolls ELSE 0)
        \o <<"find_elements">>
        \o Repeat("extract", Len(search_results))
        \o <<"quit">>
        \o (IF results = <<>> THEN <<>> ELSE <<"to_csv">>)

\* C9: the external steps happen in the order session, load, scrolls, DOM
\* query, extractions, quit, CSV write (never a scroll after the query, an
\* extraction after the quit or a write before the quit), and an execution
\* in which nothing raises performs exactly num_scrolls scrolls (none when
\* num_scrolls <= 0), one DOM query and one extraction per container.
C9_Sequence ==
    /\ \A k \in 1..(Len(calls) - 1) :
           /\ Rank(calls[k].op) <= Rank(calls[k + 1].op)
           /\ calls[k].op \in {"Chrome", "get", "find_elements", "quit",
                               "to_csv"}
                  => calls[k].op # calls[k + 1].op
    /\ (pc = "done" /\ NoRaise) =>
           [k \in 1..Len(calls) |-> calls[k].op] = ExpectedOps

C9_Witness ==
    /\ pc = "done"
    /\ NoRaise
    /\ num_scrolls = 2
    /\ Len(search_results) = 2
    /\ Written

(* -------------------------------- C10 ----------------------------------- *)
\* C10: an error other than a missing element inside the container loop
\* ends the loop (the next external call is quit), self.results holds
\* exactly the records of the containers gone through before it, and a
\* successful save_to_csv() writes exactly those;
\* after an error at navigation, scrolling or the DOM query, self.results is
\* empty and no file is written.
C10_PartialResults ==
    /\ Raised("extract") =>
           /\ \A k \in 1..(Len(calls) - 1) :
                  calls[k] = Call("extract", "raise") => calls[k + 1].op = "quit"
           /\ results = Kept(page)
           /\ Written =>
                  file = <<Header>>
                         \o [k \in 1..Len(results) |-> Row(results[k])]
    /\ (Raised("get") \/ Raised("send_keys") \/ Raised("find_elements")) =>
           /\ results = <<>>
           /\ file = NoFile
           /\ \A k \in 1..Len(calls) : calls[k].op # "to_csv"

C10_Witness ==
    /\ pc = "done"
    /\ Raised("extract")
    /\ idx = 2
    /\ Len(search_results) = 2
    /\ Len(results) = 1
    /\ Written

====
